---- MODULE Spec2Model ----
(***************************************************************************)
(* The persistent record store of app.py: load_data / save_data over the   *)
(* file data.json, and the store operations add_todo .. clear_all_data     *)
(* that mutate st.session_state.app_data and then call save_data.          *)
(*                                                                         *)
(* Python strings are tuples of one-character strings, so that strip()     *)
(* and the substring test of `in` are computed.  A JSON value is a record  *)
(* tagged by t (see JVal).  A dict is an insertion-ordered tuple of        *)
(* [k |-> key, v |-> value] pairs, as Python dicts are.  The content of a  *)
(* file is the tuple of JSON tokens json.dump writes chunk by chunk;       *)
(* white space and indentation between tokens are not represented.         *)
(***************************************************************************)
EXTENDS Integers, Sequences, FiniteSets, TLC

(***************************************************************************)
(* Bounds of the model.                                                    *)
(***************************************************************************)
\* The ids new_id() draws in a run: the records a run creates.
MaxIds == 2

\* The operations of a run whose callers overlap, and of a run in which
\* I/O fails.
MaxCalls == 2

\* The operations of a run over two days.
MaxDayCalls == 4

(***************************************************************************)
(* Python strings.                                                         *)
(***************************************************************************)
S_todos == <<"t", "o", "d", "o", "s">>
S_habits == <<"h", "a", "b", "i", "t", "s">>
S_id == <<"i", "d">>
S_text == <<"t", "e", "x", "t">>
S_done == <<"d", "o", "n", "e">>
S_name == <<"n", "a", "m", "e">>
S_created_at == <<"c", "r", "e", "a", "t", "e", "d", "_", "a", "t">>
S_completed_dates == <<"c", "o", "m", "p", "l", "e", "t", "e", "d", "_", "d", "a", "t", "e", "s">>
S_true == <<"t", "r", "u", "e">>
S_false == <<"f", "a", "l", "s", "e">>
S_null == <<"n", "u", "l", "l">>

Digits == <<"0", "1", "2", "3", "4", "5", "6", "7", "8", "9">>

\* str(n) for a one-digit n.
DigitOf(n) == Digits[n + 1]

\* int(c) for a digit character c.
DigitVal(c) == (CHOOSE i \in 1..10 : Digits[i] = c) - 1

IsDigit(c) == \E i \in 1..10 : Digits[i] = c

\* str.isspace() of one character.
IsSpace(c) == c \in {" ", "\t", "\n"}

\* str.strip(): leading and trailing white space removed.
RECURSIVE LStrip(_)
LStrip(s) == IF s # <<>> /\ IsSpace(Head(s)) THEN LStrip(Tail(s)) ELSE s

RECURSIVE RStrip(_)
RStrip(s) ==
    IF s # <<>> /\ IsSpace(s[Len(s)]) THEN RStrip(SubSeq(s, 1, Len(s) - 1)) ELSE s

Strip(s) == RStrip(LStrip(s))

\* `sub in s` for two strings.
IsSubstring(sub, s) ==
    \E i \in 0..(Len(s) - Len(sub)) : SubSeq(s, i + 1, i + Len(sub)) = sub

(***************************************************************************)
(* JSON values as json.load builds them and json.dump reads them.          *)
(***************************************************************************)
\* Every value carries every field, so that any two values can be compared:
\* s the characters of a str, b a bool, n a number, xs the elements of a
\* list, ps the items of a dict.
JVal(t, s, b, n, xs, ps) == [t |-> t, s |-> s, b |-> b, n |-> n, xs |-> xs, ps |-> ps]
JNull == JVal("null", <<>>, FALSE, 0, <<>>, <<>>)
JBool(b) == JVal("bool", <<>>, b, 0, <<>>, <<>>)
JNum(n) == JVal("num", <<>>, FALSE, n, <<>>, <<>>)
JStr(s) == JVal("str", s, FALSE, 0, <<>>, <<>>)
JList(xs) == JVal("list", <<>>, FALSE, 0, xs, <<>>)
JDict(ps) == JVal("dict", <<>>, FALSE, 0, <<>>, ps)

IsDict(x) == x.t = "dict"
IsList(x) == x.t = "list"
IsStr(x) == x.t = "str"

\* The results of an operation that may raise: a value, or Raise.
Ok(x) == [ok |-> TRUE, val |-> x]
Raise == [ok |-> FALSE, val |-> JNull]

\* dict: `k in d`, d[k], d.get(k, dflt), d[k] = x (a new key goes last).
HasKey(d, k) == \E i \in 1..Len(d.ps) : d.ps[i].k = k
DictGet(d, k) == d.ps[CHOOSE i \in 1..Len(d.ps) : d.ps[i].k = k].v
DictGetDefault(d, k, dflt) == IF HasKey(d, k) THEN DictGet(d, k) ELSE dflt
DictSet(d, k, x) ==
    IF HasKey(d, k)
    THEN JDict([i \in 1..Len(d.ps) |-> IF d.ps[i].k = k THEN [k |-> k, v |-> x] ELSE d.ps[i]])
    ELSE JDict(Append(d.ps, [k |-> k, v |-> x]))

\* Python's `k in x` for a string k: key of a dict, element of a list,
\* substring of a string; TypeError for None, bool and numbers.
Contains(x, k) ==
    CASE IsDict(x) -> Ok(HasKey(x, k))
      [] IsList(x) -> Ok(\E i \in 1..Len(x.xs) : x.xs[i] = JStr(k))
      [] IsStr(x) -> Ok(IsSubstring(k, x.s))
      [] OTHER -> [ok |-> FALSE, val |-> FALSE]

\* Python's x[k] for a string k: only a dict that has the key answers.
GetItem(x, k) == IF IsDict(x) /\ HasKey(x, k) THEN Ok(DictGet(x, k)) ELSE Raise

\* Python's x[k] = y for a string k: only a dict accepts it.
SetItem(x, k, y) == IF IsDict(x) THEN Ok(DictSet(x, k, y)) ELSE Raise

\* Python's iteration `for e in x`: list elements, dict keys, characters.
Iterate(x) ==
    CASE IsList(x) -> Ok(x.xs)
      [] IsDict(x) -> Ok([i \in 1..Len(x.ps) |-> JStr(x.ps[i].k)])
      [] IsStr(x) -> Ok([i \in 1..Len(x.s) |-> JStr(<<x.s[i]>>)])
      [] OTHER -> [ok |-> FALSE, val |-> <<>>]

\* Python's truth value of a JSON value.
Truthy(x) ==
    CASE x.t = "null" -> FALSE
      [] x.t = "bool" -> x.b
      [] x.t = "num" -> x.n # 0
      [] x.t = "str" -> x.s # <<>>
      [] x.t = "list" -> x.xs # <<>>
      [] x.t = "dict" -> x.ps # <<>>

(***************************************************************************)
(* The text of a file: the tokens of json.dump / json.load.                *)
(***************************************************************************)
Tok(k, v) == [k |-> k, v |-> v]
LBrace == Tok("p", <<"{">>)
RBrace == Tok("p", <<"}">>)
LBrack == Tok("p", <<"[">>)
RBrack == Tok("p", <<"]">>)
Comma == Tok("p", <<",">>)
Colon == Tok("p", <<":">>)

\* A string literal written without escapes.
Escape_Raw(s) == s

\* json.encoder.py_encode_basestring (ensure_ascii=False): the body of a
\* string literal, with quote, backslash and newline escaped.
RECURSIVE Escape(_)
Escape(s) ==
    IF s = <<>> THEN <<>>
    ELSE LET c == Head(s)
             e == CASE c = "\"" -> <<"\\", "\"">>
                    [] c = "\\" -> <<"\\", "\\">>
                    [] c = "\n" -> <<"\\", "n">>
                    [] OTHER -> <<c>>
         IN  e \o Escape(Tail(s))

\* json.decoder.py_scanstring on the body of a string literal: ok is FALSE
\* for a bare quote or control character and for an unknown or cut escape.
RECURSIVE Unescape(_)
Unescape(s) ==
    IF s = <<>> THEN [ok |-> TRUE, val |-> <<>>]
    ELSE LET c == Head(s) IN
         IF c = "\\"
         THEN IF Len(s) < 2 \/ s[2] \notin {"\"", "\\", "n"}
              THEN [ok |-> FALSE, val |-> <<>>]
              ELSE LET r == Unescape(SubSeq(s, 3, Len(s)))
                       d == IF s[2] = "n" THEN "\n" ELSE s[2]
                   IN  [ok |-> r.ok, val |-> <<d>> \o r.val]
         ELSE IF c \in {"\"", "\n"}
              THEN [ok |-> FALSE, val |-> <<>>]
              ELSE LET r == Unescape(Tail(s))
                   IN  [ok |-> r.ok, val |-> <<c>> \o r.val]

\* json.dump(data, f, indent=2, ensure_ascii=False): the chunks written,
\* in order.  Keys of a dict are written in insertion order.
RECURSIVE Encode(_), EncodeItems(_, _), EncodePairs(_, _)
Encode(x) ==
    CASE x.t = "null" -> <<Tok("lit", S_null)>>
      [] x.t = "bool" -> <<Tok("lit", IF x.b THEN S_true ELSE S_false)>>
      [] x.t = "num" -> <<Tok("num", <<DigitOf(x.n)>>)>>
      [] x.t = "str" -> <<Tok("str", Escape(x.s))>>
      [] x.t = "list" -> <<LBrack>> \o EncodeItems(x.xs, 1) \o <<RBrack>>
      [] x.t = "dict" -> <<LBrace>> \o EncodePairs(x.ps, 1) \o <<RBrace>>

EncodeItems(xs, i) ==
    IF i > Len(xs) THEN <<>>
    ELSE (IF i > 1 THEN <<Comma>> ELSE <<>>) \o Encode(xs[i]) \o EncodeItems(xs, i + 1)

EncodePairs(ps, i) ==
    IF i > Len(ps) THEN <<>>
    ELSE (IF i > 1 THEN <<Comma>> ELSE <<>>)
         \o <<Tok("str", Escape(ps[i].k)), Colon>> \o Encode(ps[i].v)
         \o EncodePairs(ps, i + 1)

\* json.load: a recursive-descent parse.  A parse result is
\* [ok, val, next]: next is the index of the first token not consumed.
ParseFail == [ok |-> FALSE, val |-> JNull, next |-> 0]
Parsed(x, n) == [ok |-> TRUE, val |-> x, next |-> n]

RECURSIVE ParseValue(_, _), ParseItems(_, _, _), ParsePairs(_, _, _)
ParseValue(toks, i) ==
    IF i > Len(toks) THEN ParseFail
    ELSE LET tk == toks[i] IN
         CASE tk.k = "str" ->
                  LET u == Unescape(tk.v)
                  IN  IF u.ok THEN Parsed(JStr(u.val), i + 1) ELSE ParseFail
           [] tk.k = "lit" ->
                  CASE tk.v = S_null -> Parsed(JNull, i + 1)
                    [] tk.v = S_true -> Parsed(JBool(TRUE), i + 1)
                    [] tk.v = S_false -> Parsed(JBool(FALSE), i + 1)
                    [] OTHER -> ParseFail
           [] tk.k = "num" ->
                  IF Len(tk.v) = 1 /\ IsDigit(tk.v[1])
                  THEN Parsed(JNum(DigitVal(tk.v[1])), i + 1)
                  ELSE ParseFail
           [] tk = LBrack ->
                  IF i + 1 <= Len(toks) /\ toks[i + 1] = RBrack
                  THEN Parsed(JList(<<>>), i + 2)
                  ELSE ParseItems(toks, i + 1, <<>>)
           [] tk = LBrace ->
                  IF i + 1 <= Len(toks) /\ toks[i + 1] = RBrace
                  THEN Parsed(JDict(<<>>), i + 2)
                  ELSE ParsePairs(toks, i + 1, JDict(<<>>))
           [] OTHER -> ParseFail

\* The elements of an array after "[" or ",": acc holds those read so far.
ParseItems(toks, i, acc) ==
    LET r == ParseValue(toks, i) IN
    IF ~r.ok \/ r.next > Len(toks) THEN ParseFail
    ELSE IF toks[r.next] = RBrack THEN Parsed(JList(Append(acc, r.val)), r.next + 1)
    ELSE IF toks[r.next] = Comma THEN ParseItems(toks, r.next + 1, Append(acc, r.val))
    ELSE ParseFail

\* The members of an object after "{" or ",": a repeated key keeps its
\* first place and takes the last value, as dict(pairs) does.
ParsePairs(toks, i, acc) ==
    IF i + 1 > Len(toks) \/ toks[i].k # "str" \/ toks[i + 1] # Colon THEN ParseFail
    ELSE LET key == Unescape(toks[i].v)
             r == ParseValue(toks, i + 2)
         IN  IF ~key.ok \/ ~r.ok \/ r.next > Len(toks) THEN ParseFail
             ELSE IF toks[r.next] = RBrace
                  THEN Parsed(DictSet(acc, key.val, r.val), r.next + 1)
             ELSE IF toks[r.next] = Comma
                  THEN ParsePairs(toks, r.next + 1, DictSet(acc, key.val, r.val))
             ELSE ParseFail

\* json.load(f): the whole text must be one value; otherwise it raises.
json_load(toks) ==
    LET r == ParseValue(toks, 1)
    IN  IF r.ok /\ r.next = Len(toks) + 1 THEN Ok(r.val) ELSE Raise

(***************************************************************************)
(* Files, clock and identifiers.                                           *)
(***************************************************************************)
\* A file of the app folder: whether it exists, and its text.
FileOf(toks) == [exists |-> TRUE, toks |-> toks]
NoFile == [exists |-> FALSE, toks |-> <<>>]

\* The seconds of one calendar day (date.today() against datetime.now()).
SecondsPerDay == 86400
DayOf(t) == t \div SecondsPerDay
SecOf(t) == t % SecondsPerDay

\* date.today().isoformat() and datetime.now().isoformat() at epoch second
\* t: the date is the prefix of the date-time, as in ISO 8601.
IsoDate(t) == <<"d", DigitOf(DayOf(t))>>
IsoDateTime(t) == IsoDate(t) \o <<"T", DigitOf(SecOf(t))>>

\* An id that does not depend on the draw.
new_id_Constant(n) == <<"u", DigitOf(0)>>

\* new_id(): str(uuid.uuid4()), the n-th token drawn; no two draws agree.
new_id(n) == <<"u", DigitOf(n)>>

(***************************************************************************)
(* load_data.                                                              *)
(***************************************************************************)
\* The dict `default` of load_data, also the literal of clear_all_data.
Default ==
    JDict(<<[k |-> S_todos, v |-> JList(<<>>)], [k |-> S_habits, v |-> JList(<<>>)]>>)

\* raw.update(default): the defaults replace what the file has.
MergeDefaults_Overwrite(acc, i) ==
    IF acc.ok /\ IsDict(acc.val)
    THEN Ok(DictSet(DictSet(acc.val, S_todos, JList(<<>>)), S_habits, JList(<<>>)))
    ELSE Raise

\* for k, v in default.items(): if k not in raw: raw[k] = v
\* from the i-th item on; acc is Ok(raw) or Raise once a test or a store raised.
RECURSIVE MergeDefaults(_, _)
MergeDefaults(acc, i) ==
    IF ~acc.ok \/ i > Len(Default.ps) THEN acc
    ELSE LET k == Default.ps[i].k
             c == Contains(acc.val, k)
         IN  IF ~c.ok THEN Raise
             ELSE IF c.val THEN MergeDefaults(acc, i + 1)
             ELSE MergeDefaults(SetItem(acc.val, k, Default.ps[i].v), i + 1)

\* The name of the backup file is DATA_FILE.bak.<t>: the backups are
\* indexed by t.  os.rename replaces a file already at that name.
Backup(bk, t, f) == [u \in (DOMAIN bk) \cup {t} |-> IF u = t THEN f ELSE bk[u]]

\* load_data that writes the default state when there is no file.
load_data_Creates(f, bk, t) ==
    IF f.exists
    THEN LET raw == json_load(f.toks)
             merged == IF raw.ok THEN MergeDefaults(raw, 1) ELSE Raise
         IN  IF merged.ok
             THEN [data |-> merged.val, file |-> f, backups |-> bk]
             ELSE [data |-> Default, file |-> NoFile, backups |-> Backup(bk, t, f)]
    ELSE [data |-> Default, file |-> FileOf(Encode(Default)), backups |-> bk]

\* load_data() on file f with backups bk at epoch second t: the dict
\* returned, and the files afterwards.
load_data(f, bk, t) ==
    IF f.exists
    THEN LET raw == json_load(f.toks)
             merged == IF raw.ok THEN MergeDefaults(raw, 1) ELSE Raise
         IN  IF merged.ok
             THEN [data |-> merged.val, file |-> f, backups |-> bk]
             ELSE [data |-> Default, file |-> NoFile, backups |-> Backup(bk, t, f)]
    ELSE [data |-> Default, file |-> f, backups |-> bk]

(***************************************************************************)
(* The store operations, up to their call of save_data.  Each takes        *)
(* st.session_state.app_data as mem and answers Ret(ok, save, mem):        *)
(* ok is FALSE when the body raised, save says whether save_data is        *)
(* called, mem is app_data afterwards.                                     *)
(***************************************************************************)
Ret(ok, save, mem) == [ok |-> ok, save |-> save, mem |-> mem, why |-> ""]

\* The operation returned at its guard, without a change and without a save.
Skip(mem, why) == [ok |-> TRUE, save |-> FALSE, mem |-> mem, why |-> why]

\* The dict add_todo appends.
Task(id, text, ts) ==
    JDict(<<[k |-> S_id, v |-> JStr(id)],
            [k |-> S_text, v |-> JStr(text)],
            [k |-> S_done, v |-> JBool(FALSE)],
            [k |-> S_created_at, v |-> JStr(ts)]>>)

\* The dict add_habit appends.
Habit(id, name, ts) ==
    JDict(<<[k |-> S_id, v |-> JStr(id)],
            [k |-> S_name, v |-> JStr(name)],
            [k |-> S_created_at, v |-> JStr(ts)],
            [k |-> S_completed_dates, v |-> JList(<<>>)]>>)

\* coll.append(rec) on app_data[key]: only a list has append.
AppendTo(mem, key, rec) ==
    LET coll == GetItem(mem, key) IN
    IF coll.ok /\ IsList(coll.val)
    THEN Ret(TRUE, TRUE, DictSet(mem, key, JList(Append(coll.val.xs, rec))))
    ELSE Ret(FALSE, FALSE, mem)

\* add_todo without its guard.
add_todo_NoGuard(mem, text, id, ts) == AppendTo(mem, S_todos, Task(id, Strip(text), ts))

add_todo(mem, text, id, ts) ==
    IF Strip(text) = <<>> THEN Skip(mem, "blank")
    ELSE AppendTo(mem, S_todos, Task(id, Strip(text), ts))

add_habit(mem, name, id, ts) ==
    IF Strip(name) = <<>> THEN Skip(mem, "blank")
    ELSE AppendTo(mem, S_habits, Habit(id, Strip(name), ts))

\* [x for x in xs if x["id"] != id] from the i-th element on.
RECURSIVE FilterOut(_, _, _)
FilterOut(xs, i, id) ==
    IF i > Len(xs) THEN Ok(JList(<<>>))
    ELSE LET g == GetItem(xs[i], S_id)
             rest == FilterOut(xs, i + 1, id)
         IN  IF ~g.ok \/ ~rest.ok THEN Raise
             ELSE IF g.val # id THEN Ok(JList(<<xs[i]>> \o rest.val.xs))
             ELSE rest

\* app_data[key] = [x for x in app_data[key] if x["id"] != id]
DeleteById(mem, key, id) ==
    LET coll == GetItem(mem, key)
        it == IF coll.ok THEN Iterate(coll.val) ELSE [ok |-> FALSE, val |-> <<>>]
        kept == IF it.ok THEN FilterOut(it.val, 1, id) ELSE Raise
    IN  IF kept.ok THEN Ret(TRUE, TRUE, DictSet(mem, key, kept.val))
        ELSE Ret(FALSE, FALSE, mem)

\* delete_todo that filters the habits.
delete_todo_FromHabits(mem, id) == DeleteById(mem, S_habits, id)

delete_todo(mem, id) == DeleteById(mem, S_todos, id)

delete_habit(mem, id) == DeleteById(mem, S_habits, id)

\* for x in xs: if x["id"] == id: ...; break
\* The index of the first match, 0 when the loop ends without one, -1 when
\* x["id"] raised before one.
RECURSIVE FindById(_, _, _)
FindById(xs, i, id) ==
    IF i > Len(xs) THEN 0
    ELSE LET g == GetItem(xs[i], S_id) IN
         IF ~g.ok THEN -1
         ELSE IF g.val = id THEN i
         ELSE FindById(xs, i + 1, id)

\* The index FindById gives for the elements of app_data[key].
FindIn(mem, key, id) ==
    LET coll == GetItem(mem, key)
        it == IF coll.ok THEN Iterate(coll.val) ELSE [ok |-> FALSE, val |-> <<>>]
    IN  IF it.ok THEN FindById(it.val, 1, id) ELSE -1

\* The i-th element of the list app_data[key] replaced by rec: the element
\* is updated in place.
ReplaceAt(mem, key, i, rec) ==
    DictSet(mem, key, JList([DictGet(mem, key).xs EXCEPT ![i] = rec]))

\* toggle_todo that marks the task done.
toggle_todo_SetDone(mem, id) ==
    LET at == FindIn(mem, S_todos, id) IN
    IF at = -1 THEN Ret(FALSE, FALSE, mem)
    ELSE IF at = 0 THEN Ret(TRUE, TRUE, mem)
    ELSE LET t == DictGet(mem, S_todos).xs[at]
         IN  Ret(TRUE, TRUE, ReplaceAt(mem, S_todos, at, DictSet(t, S_done, JBool(TRUE))))

toggle_todo(mem, id) ==
    LET at == FindIn(mem, S_todos, id) IN
    IF at = -1 THEN Ret(FALSE, FALSE, mem)
    ELSE IF at = 0 THEN Ret(TRUE, TRUE, mem)
    ELSE LET t == DictGet(mem, S_todos).xs[at]
             done == Truthy(DictGetDefault(t, S_done, JBool(FALSE)))
         IN  Ret(TRUE, TRUE, ReplaceAt(mem, S_todos, at, DictSet(t, S_done, JBool(~done))))

\* A remove that removes nothing.
RemoveFirst_None(xs, x) == xs

\* list.remove(x): the first element equal to x removed.
RemoveFirst(xs, x) ==
    LET at == CHOOSE i \in 1..Len(xs) : xs[i] = x /\ \A j \in 1..(i - 1) : xs[j] # x
    IN  SubSeq(xs, 1, at - 1) \o SubSeq(xs, at + 1, Len(xs))

\* toggle_habit_today that appends today without looking for it.
toggle_habit_today_NoTest(mem, id, checked, today) ==
    LET at == FindIn(mem, S_habits, id) IN
    IF at = -1 THEN Ret(FALSE, FALSE, mem)
    ELSE IF at = 0 THEN Ret(TRUE, TRUE, mem)
    ELSE LET h == DictGet(mem, S_habits).xs[at]
             cd == GetItem(h, S_completed_dates)
         IN  IF ~cd.ok \/ ~IsList(cd.val) THEN Ret(FALSE, FALSE, mem)
             ELSE IF checked
                  THEN Ret(TRUE, TRUE,
                           ReplaceAt(mem, S_habits, at,
                                     DictSet(h, S_completed_dates,
                                             JList(Append(cd.val.xs, JStr(today))))))
             ELSE Ret(TRUE, TRUE, mem)

toggle_habit_today(mem, id, checked, today) ==
    LET at == FindIn(mem, S_habits, id) IN
    IF at = -1 THEN Ret(FALSE, FALSE, mem)
    ELSE IF at = 0 THEN Ret(TRUE, TRUE, mem)
    ELSE LET h == DictGet(mem, S_habits).xs[at]
             cd == GetItem(h, S_completed_dates)
             has == IF cd.ok THEN Contains(cd.val, today) ELSE [ok |-> FALSE, val |-> FALSE]
             put(xs) == ReplaceAt(mem, S_habits, at, DictSet(h, S_completed_dates, JList(xs)))
         IN  IF ~has.ok THEN Ret(FALSE, FALSE, mem)
             ELSE IF checked /\ ~has.val
                  THEN IF IsList(cd.val)
                       THEN Ret(TRUE, TRUE, put(Append(cd.val.xs, JStr(today))))
                       ELSE Ret(FALSE, FALSE, mem)
             ELSE IF ~checked /\ has.val
                  THEN IF IsList(cd.val)
                       THEN Ret(TRUE, TRUE, put(RemoveFirst(cd.val.xs, JStr(today))))
                       ELSE Ret(FALSE, FALSE, mem)
             ELSE Ret(TRUE, TRUE, mem)

\* clear_all_data that empties the tasks only.
clear_all_data_TodosOnly(mem, confirm) ==
    IF confirm
    THEN Ret(TRUE, TRUE, IF IsDict(mem) THEN DictSet(mem, S_todos, JList(<<>>)) ELSE Default)
    ELSE Skip(mem, "unconfirmed")

clear_all_data(mem, confirm) ==
    IF confirm THEN Ret(TRUE, TRUE, Default) ELSE Skip(mem, "unconfirmed")

(***************************************************************************)
(* The state of the program.                                               *)
(*                                                                         *)
(* A caller p is one script run of main(); sess[p] is its session, and     *)
(* app_data[s] is st.session_state.app_data of session s (Unset while      *)
(* "app_data" is not in the session state).  pc[p] is the place of the     *)
(* caller: "idle" between operations, "save_open" at the open() of the     *)
(* save_data of operation op[p], "save_write" between the open() and the   *)
(* end of the with block.  out[p] says how the                             *)
(* last operation of p ended: "none" (none yet), "running", "blank" and    *)
(* "unconfirmed" (returned at its guard), "saved" (returned after          *)
(* save_data), "raised" (its body raised), "failed" (save_data raised).    *)
(***************************************************************************)
VARIABLES
    file,       \* data.json
    backups,    \* the files data.json.bak.<t>, by t
    now,        \* the clock, in epoch seconds
    nextId,     \* the number of ids new_id() has drawn
    app_data,   \* session -> st.session_state.app_data
    pc,         \* caller -> place
    op,         \* caller -> the operation that is in save_data, and its arguments
    out,        \* caller -> how its last operation ended
    held,       \* caller -> the dict passed to save_data
    fd,         \* caller -> the file save_data has open
    procs,      \* the callers that run
    sess,       \* caller -> session
    pre,        \* caller -> app_data when the operation in save_data was called
    committed,  \* data.json as the last load or completed save left it
    wrote,      \* session -> a save_data of the session has completed
    lastSaver,  \* the session whose save_data completed last (0: none)
    quota       \* the calls the run may still make (-1: any number)

vars == <<file, backups, now, nextId, app_data, pc, op, out, held, fd, procs,
          sess, pre, committed, wrote, lastSaver, quota>>

Procs == {1, 2}
Sessions == {1, 2}

Unset == JVal("unset", <<>>, FALSE, 0, <<>>, <<>>)

\* An operation and its arguments: s a text, id an id, flag a bool.
Op(name, s, id, flag) == [name |-> name, s |-> s, id |-> id, flag |-> flag]
NoOp == Op("none", <<>>, JNull, FALSE)

\* The dict save_data was given: app_data itself (live), or the dict that
\* was app_data before clear_all_data rebound the name.
Live == [live |-> TRUE, val |-> JNull]
Frozen(x) == [live |-> FALSE, val |-> x]

\* The file an open() of save_data refers to: data.json (at = -1), the
\* backup it was renamed to (at = t), or a file no name refers to (at = -2).
Closed == [open |-> FALSE, at |-> -1]
OpenAt(t) == [open |-> TRUE, at |-> t]

(***************************************************************************)
(* The inputs.                                                             *)
(***************************************************************************)
\* Texts typed into st.text_input: empty, blank, and one with white space
\* around and inside and a quote.
Texts == {<<>>, <<" ", " ">>, <<" ", "a", " ", "\"", " ">>}

\* Records of files written before the run.
T_x == JDict(<<[k |-> S_id, v |-> JStr(<<"x">>)],
               [k |-> S_text, v |-> JStr(<<"m">>)],
               [k |-> S_done, v |-> JBool(TRUE)],
               [k |-> S_created_at, v |-> JStr(IsoDateTime(0))]>>)
H_y == JDict(<<[k |-> S_id, v |-> JStr(<<"y">>)],
               [k |-> S_name, v |-> JStr(<<"r">>)],
               [k |-> S_created_at, v |-> JStr(IsoDateTime(0))],
               [k |-> S_completed_dates, v |-> JList(<<JStr(IsoDate(0))>>)]>>)

\* An id no record has.
AbsentId == JStr(<<"z">>)

\* The ids the presentation layer can pass: those of records, and AbsentId.
IdPool ==
    {JStr(<<"x">>), JStr(<<"y">>), AbsentId} \cup {JStr(new_id(n)) : n \in 0..MaxIds}

IdsOf(mem, key) ==
    IF IsDict(mem) /\ HasKey(mem, key) /\ IsList(DictGet(mem, key))
    THEN {i \in IdPool : \E j \in 1..Len(DictGet(mem, key).xs) :
                             GetItem(DictGet(mem, key).xs[j], S_id) = Ok(i)}
    ELSE {}

\* The contents data.json can have when the process starts.
InitFiles ==
    { NoFile,
      FileOf(<<>>),
      FileOf(<<Tok("bad", <<"n", "o", "t">>), Tok("bad", <<"j", "s", "o", "n">>)>>),
      FileOf(Encode(JDict(<<>>))),
      FileOf(Encode(JDict(<<[k |-> S_todos, v |-> JList(<<T_x>>)]>>))),
      FileOf(Encode(JDict(<<[k |-> S_habits, v |-> JList(<<H_y>>)]>>))),
      FileOf(Encode(JDict(<<[k |-> S_todos, v |-> JNull],
                            [k |-> S_habits, v |-> JList(<<>>)]>>))),
      FileOf(Encode(JList(<<JStr(S_todos), JStr(S_habits)>>))),
      FileOf(Encode(JStr(S_todos \o <<" ">> \o S_habits))),
      FileOf(Encode(JList(<<JStr(S_todos)>>))),
      FileOf(Encode(JNum(5))) }

(***************************************************************************)
(* The initial states: no session has loaded, data.json is as an earlier   *)
(* run or an editor left it.                                               *)
(***************************************************************************)
InitWith(ps, ss, files, q) ==
    /\ file \in files
    /\ backups = <<>>
    /\ now = 0
    /\ nextId = 0
    /\ app_data = [s \in Sessions |-> Unset]
    /\ pc = [p \in Procs |-> "idle"]
    /\ op = [p \in Procs |-> NoOp]
    /\ out = [p \in Procs |-> "none"]
    /\ held = [p \in Procs |-> Live]
    /\ fd = [p \in Procs |-> Closed]
    /\ procs = ps
    /\ sess = ss
    /\ pre = [p \in Procs |-> Unset]
    /\ committed = file
    /\ wrote = [s \in Sessions |-> FALSE]
    /\ lastSaver = 0
    /\ quota = q

\* One session with one caller.
Init == InitWith({1}, [p \in Procs |-> 1], InitFiles, -1)

\* One session with one caller, from no file or from one this program wrote.
InitIO ==
    InitWith({1}, [p \in Procs |-> 1],
             {NoFile, FileOf(Encode(DictSet(Default, S_todos, JList(<<T_x>>))))}, MaxCalls)

\* One session with one caller, from no file, from one that has a habit
\* completed on the first day, or from one whose content is not the two
\* lists.
InitDays ==
    InitWith({1}, [p \in Procs |-> 1],
             { NoFile,
               FileOf(Encode(JDict(<<[k |-> S_habits, v |-> JList(<<H_y>>)]>>))),
               FileOf(Encode(JDict(<<[k |-> S_todos, v |-> JNull],
                                     [k |-> S_habits, v |-> JList(<<>>)]>>))),
               FileOf(Encode(JStr(S_todos \o <<" ">> \o S_habits))) }, MaxDayCalls)

\* Two sessions, each with one caller, that start from no file.
InitSessions == InitWith({1, 2}, [p \in Procs |-> p], {NoFile}, MaxCalls)

\* One session whose script runs overlap.
InitThreads == InitWith({1, 2}, [p \in Procs |-> 1], {NoFile}, MaxCalls)

(***************************************************************************)
(* ensure_session_state and the clock.                                     *)
(***************************************************************************)
\* The open files after load_data renamed data.json to data.json.bak.<t>:
\* an open file follows its rename, and the file the rename replaced has no
\* name any more.
FdAfterRename(f, t) ==
    IF ~f.open THEN f
    ELSE IF f.at = -1 THEN OpenAt(t)
    ELSE IF f.at = t THEN OpenAt(-2)
    ELSE f

\* ensure_session_state(): load_data() once per session.
EnsureSessionState(p) ==
    /\ p \in procs
    /\ pc[p] = "idle"
    /\ app_data[sess[p]] = Unset
    /\ LET r == load_data(file, backups, now) IN
       /\ app_data' = [app_data EXCEPT ![sess[p]] = r.data]
       /\ file' = r.file
       /\ backups' = r.backups
       /\ committed' = r.file
       /\ fd' = IF r.file = file THEN fd
                ELSE [q \in Procs |-> FdAfterRename(fd[q], now)]
    /\ UNCHANGED <<now, nextId, pc, op, out, held, procs, sess, pre, wrote, lastSaver,
                   quota>>

\* The instants of the run: a second of one day and a second of the next.
Times == {0, SecondsPerDay}

\* Time passes.
Tick ==
    /\ \E t \in Times : t > now /\ now' = t
    /\ UNCHANGED <<file, backups, nextId, app_data, pc, op, out, held, fd, procs,
                   sess, pre, committed, wrote, lastSaver, quota>>

(***************************************************************************)
(* The store operations.                                                   *)
(***************************************************************************)
\* Caller p is between operations, its session has loaded, and the run may
\* make another call.
Ready(p) ==
    /\ p \in procs
    /\ pc[p] = "idle"
    /\ app_data[sess[p]] # Unset
    /\ quota # 0

\* The callers of the session of p, other than p, that are inside save_data
\* with app_data itself.
SaversBeside(p) ==
    {q \in procs \ {p} : sess[q] = sess[p] /\ pc[q] \in {"save_open", "save_write"}
                          /\ held[q].live}

\* The body of operation o has run with result r: app_data is as the body
\* left it; the caller goes on to save_data(st.session_state.app_data), or
\* returns, or the exception leaves the operation.  drew says that the body
\* called new_id(), rebound that it bound app_data to a new dict.
Proceed(p, o, r, drew, rebound) ==
    /\ app_data' = [app_data EXCEPT ![sess[p]] = r.mem]
    /\ nextId' = IF drew THEN nextId + 1 ELSE nextId
    /\ pc' = [pc EXCEPT ![p] = IF r.ok /\ r.save THEN "save_open" ELSE "idle"]
    /\ op' = [op EXCEPT ![p] = IF r.ok /\ r.save THEN o ELSE NoOp]
    /\ pre' = [pre EXCEPT ![p] = IF r.ok /\ r.save THEN app_data[sess[p]] ELSE Unset]
    /\ out' = [out EXCEPT ![p] = IF ~r.ok THEN "raised"
                                 ELSE IF r.save THEN "running" ELSE r.why]
    /\ held' = [q \in Procs |->
                   IF q = p THEN Live
                   ELSE IF rebound /\ q \in SaversBeside(p)
                        THEN Frozen(app_data[sess[p]])
                   ELSE held[q]]
    /\ quota' = IF quota > 0 THEN quota - 1 ELSE quota
    /\ UNCHANGED <<file, backups, now, fd, procs, sess, committed, wrote, lastSaver>>

\* The texts a creation can be called with: a text that is not blank only
\* while new_id() has ids left.
TextsLeft == {t \in Texts : Strip(t) = <<>> \/ nextId < MaxIds}

\* add_todo(text) up to its call of save_data.
AddTodoWith(p, text) ==
    /\ Ready(p)
    /\ LET r == add_todo(app_data[sess[p]], text, new_id(nextId), IsoDateTime(now))
       IN  Proceed(p, Op("add_todo", text, JNull, FALSE), r, r.ok /\ r.save, FALSE)

AddTodo(p) == \E text \in TextsLeft : AddTodoWith(p, text)

\* delete_todo(todo_id) up to its call of save_data.
DeleteTodoWith(p, id) ==
    /\ Ready(p)
    /\ Proceed(p, Op("delete_todo", <<>>, id, FALSE),
               delete_todo(app_data[sess[p]], id), FALSE, FALSE)

DeleteTodo(p) ==
    \E id \in IdsOf(app_data[sess[p]], S_todos) \cup {AbsentId} : DeleteTodoWith(p, id)

\* toggle_todo(todo_id) up to its call of save_data.
ToggleTodoWith(p, id) ==
    /\ Ready(p)
    /\ Proceed(p, Op("toggle_todo", <<>>, id, FALSE),
               toggle_todo(app_data[sess[p]], id), FALSE, FALSE)

ToggleTodo(p) ==
    \E id \in IdsOf(app_data[sess[p]], S_todos) \cup {AbsentId} : ToggleTodoWith(p, id)

\* add_habit(name) up to its call of save_data.
AddHabitWith(p, name) ==
    /\ Ready(p)
    /\ LET r == add_habit(app_data[sess[p]], name, new_id(nextId), IsoDateTime(now))
       IN  Proceed(p, Op("add_habit", name, JNull, FALSE), r, r.ok /\ r.save, FALSE)

AddHabit(p) == \E name \in TextsLeft : AddHabitWith(p, name)

\* delete_habit(habit_id) up to its call of save_data.
DeleteHabitWith(p, id) ==
    /\ Ready(p)
    /\ Proceed(p, Op("delete_habit", <<>>, id, FALSE),
               delete_habit(app_data[sess[p]], id), FALSE, FALSE)

DeleteHabit(p) ==
    \E id \in IdsOf(app_data[sess[p]], S_habits) \cup {AbsentId} : DeleteHabitWith(p, id)

\* toggle_habit_today(habit_id, checked) up to its call of save_data.
ToggleHabitTodayWith(p, id, checked) ==
    /\ Ready(p)
    /\ Proceed(p, Op("toggle_habit_today", <<>>, id, checked),
               toggle_habit_today(app_data[sess[p]], id, checked, IsoDate(now)),
               FALSE, FALSE)

ToggleHabitToday(p) ==
    \E id \in IdsOf(app_data[sess[p]], S_habits) \cup {AbsentId}, checked \in BOOLEAN :
        ToggleHabitTodayWith(p, id, checked)

\* clear_all_data(confirm) up to its call of save_data.
ClearAllDataWith(p, confirm) ==
    /\ Ready(p)
    /\ LET r == clear_all_data(app_data[sess[p]], confirm)
       IN  Proceed(p, Op("clear_all_data", <<>>, JNull, confirm), r, FALSE, r.save)

ClearAllData(p) == \E confirm \in BOOLEAN : ClearAllDataWith(p, confirm)

(***************************************************************************)
(* save_data.                                                              *)
(***************************************************************************)
\* save_data called before the body has changed app_data.
DataOf_Stale(p) == pre[p]

\* The dict save_data(data) of caller p dumps.
DataOf(p) == IF held[p].live THEN app_data[sess[p]] ELSE held[p].val

\* A write of new at offset 0 over the text old: what lies beyond the end
\* of new stays.
Overlay(old, new) == new \o SubSeq(old, Len(new) + 1, Len(old))

\* The files after caller p has written toks through its open file.
WriteThrough(p, toks) ==
    /\ file' = IF fd[p].at = -1 THEN FileOf(Overlay(file.toks, toks)) ELSE file
    /\ backups' = IF fd[p].at >= 0
                  THEN [backups EXCEPT ![fd[p].at] =
                            FileOf(Overlay(backups[fd[p].at].toks, toks))]
                  ELSE backups

\* open(DATA_FILE, "w"): data.json is created or cut to length 0.
SaveOpen(p) ==
    /\ pc[p] = "save_open"
    /\ file' = FileOf(<<>>)
    /\ fd' = [fd EXCEPT ![p] = OpenAt(-1)]
    /\ pc' = [pc EXCEPT ![p] = "save_write"]
    /\ UNCHANGED <<backups, now, nextId, app_data, op, out, held, procs, sess, pre,
                   committed, wrote, lastSaver, quota>>

\* json.dump and the end of the with block: the text reaches the file, and
\* the operation returns.
SaveWrite(p) ==
    /\ pc[p] = "save_write"
    /\ WriteThrough(p, Encode(DataOf(p)))
    /\ committed' = file'
    /\ wrote' = [wrote EXCEPT ![sess[p]] = TRUE]
    /\ lastSaver' = sess[p]
    /\ pc' = [pc EXCEPT ![p] = "idle"]
    /\ op' = [op EXCEPT ![p] = NoOp]
    /\ pre' = [pre EXCEPT ![p] = Unset]
    /\ held' = [held EXCEPT ![p] = Live]
    /\ fd' = [fd EXCEPT ![p] = Closed]
    /\ out' = [out EXCEPT ![p] = "saved"]
    /\ UNCHANGED <<now, nextId, app_data, procs, sess, quota>>

\* An operation that undoes its change when save_data raises.
SaveRaises_Rollback(p) ==
    /\ app_data' = [app_data EXCEPT ![sess[p]] = pre[p]]
    /\ out' = [out EXCEPT ![p] = "failed"]
    /\ pc' = [pc EXCEPT ![p] = "idle"]
    /\ op' = [op EXCEPT ![p] = NoOp]
    /\ pre' = [pre EXCEPT ![p] = Unset]
    /\ held' = [held EXCEPT ![p] = Live]
    /\ fd' = [fd EXCEPT ![p] = Closed]
    /\ UNCHANGED <<now, nextId, procs, sess, committed, wrote, lastSaver, quota>>

\* save_data raised inside an operation: nothing catches the exception, it
\* leaves the operation, and app_data stays as the body left it.
SaveRaises(p) ==
    /\ app_data' = app_data
    /\ out' = [out EXCEPT ![p] = "failed"]
    /\ pc' = [pc EXCEPT ![p] = "idle"]
    /\ op' = [op EXCEPT ![p] = NoOp]
    /\ pre' = [pre EXCEPT ![p] = Unset]
    /\ held' = [held EXCEPT ![p] = Live]
    /\ fd' = [fd EXCEPT ![p] = Closed]
    /\ UNCHANGED <<now, nextId, procs, sess, committed, wrote, lastSaver, quota>>

\* open() raises (the folder or the file is not writable): no file changes.
SaveOpenFails(p) ==
    /\ pc[p] = "save_open"
    /\ UNCHANGED <<file, backups>>
    /\ SaveRaises(p)

\* The numbers of chunks that reach the file when a write fails: none, the
\* first, all but the last.
CutPoints(toks) == {0, 1, Len(toks) - 1}

\* A write raises (the disk is full): a proper prefix of the text is in the
\* file.
SaveWriteFails(p) ==
    /\ pc[p] = "save_write"
    /\ \E n \in CutPoints(Encode(DataOf(p))) :
           WriteThrough(p, SubSeq(Encode(DataOf(p)), 1, n))
    /\ SaveRaises(p)

\* The process is killed and started again, or the session ends and a new
\* one begins: the session state is gone, the files stay as they are.
Crash ==
    /\ \E s \in Sessions : app_data[s] # Unset
    /\ app_data' = [s \in Sessions |-> Unset]
    /\ pc' = [p \in Procs |-> "idle"]
    /\ op' = [p \in Procs |-> NoOp]
    /\ out' = [p \in Procs |-> "none"]
    /\ held' = [p \in Procs |-> Live]
    /\ fd' = [p \in Procs |-> Closed]
    /\ pre' = [p \in Procs |-> Unset]
    /\ wrote' = [s \in Sessions |-> FALSE]
    /\ lastSaver' = 0
    /\ UNCHANGED <<file, backups, now, nextId, procs, sess, committed, quota>>

\* The steps of the callers.
NextCall ==
    \E p \in Procs :
           \/ EnsureSessionState(p)
           \/ AddTodo(p)
           \/ DeleteTodo(p)
           \/ ToggleTodo(p)
           \/ AddHabit(p)
           \/ DeleteHabit(p)
           \/ ToggleHabitToday(p)
           \/ ClearAllData(p)
           \/ SaveOpen(p)
           \/ SaveWrite(p)

\* The steps of a run over process restarts.
Next ==
    \/ NextCall
    \/ Crash

\* The steps of a run in which open() or a write may fail.
NextIO ==
    \/ NextCall
    \/ Tick
    \/ \E p \in Procs :
           \/ SaveOpenFails(p)
           \/ SaveWriteFails(p)

\* One session with one caller at a time, over process restarts, within
\* one second; no I/O failure.
Spec == Init /\ [][Next]_vars

\* One session with one caller in one process life, for MaxCalls
\* operations over two days; open() and writes may fail.
SpecIO == InitIO /\ [][NextIO]_vars

\* The steps of a run over two days.
NextDays ==
    \/ NextCall
    \/ Tick

\* One session with one caller at a time in one process life, for
\* MaxDayCalls operations over two days; no I/O failure.
SpecDays == InitDays /\ [][NextDays]_vars

\* Two sessions over one data.json whose operations overlap, within one
\* process life and one second, for MaxCalls operations; no I/O failure.
SpecSessions == InitSessions /\ [][NextCall]_vars

\* One session with two callers that overlap, within one process life and
\* one second, for MaxCalls operations; no I/O failure.
SpecThreads == InitThreads /\ [][NextCall]_vars

(***************************************************************************)
(* The properties.                                                         *)
(***************************************************************************)
InSave(p) == pc[p] \in {"save_open", "save_write"}

\* The records of the collection key of mem, when mem is a dict that has it
\* as a list; no records otherwise.
Records(mem, key) ==
    IF IsDict(mem) /\ HasKey(mem, key) /\ IsList(DictGet(mem, key))
    THEN DictGet(mem, key).xs
    ELSE <<>>

\* C1: with one session and no write failure, whenever no operation is in
\* progress and a save of the session has completed, data.json exists and
\* decodes to exactly the app_data of the session.
C1_FileIsMemory ==
    \A p \in procs :
        (pc[p] = "idle" /\ wrote[sess[p]])
            => file.exists /\ json_load(file.toks) = Ok(app_data[sess[p]])

\* Every mutating operation has saved, and both collections hold a record.
C1_Witness ==
    /\ pc[1] = "idle" /\ out[1] = "saved"
    /\ Len(Records(app_data[1], S_todos)) = 2
    /\ Len(Records(app_data[1], S_habits)) = 1
    /\ Records(DictGet(app_data[1], S_habits).xs[1], S_completed_dates) # <<>>

\* C2: in every state, steps of save_data included, data.json is as the
\* last load or completed save left it, or holds the complete new state.
C2_AtomicSave ==
    \/ file = committed
    \/ \E p \in procs : InSave(p) /\ file = FileOf(Encode(DataOf(p)))

\* C3: two callers of one session are never both between the first and the
\* last step of the mutate-and-persist sequence of an operation.
C3_Serialized ==
    \A p, q \in procs :
        (p # q /\ sess[p] = sess[q]) => ~(InSave(p) /\ InSave(q))

\* C4: for every app_data S a session holds, load_data on the file that
\* save_data(S) writes gives S back, and makes no backup.
C4_RoundTrip ==
    \A s \in Sessions :
        app_data[s] # Unset =>
            LET saved == FileOf(Overlay(<<>>, Encode(app_data[s])))
                r == load_data(saved, backups, now)
            IN  r.data = app_data[s] /\ r.backups = backups /\ r.file = saved

\* A state with a record whose text holds a quote, an empty collection and
\* a record with a completed date.
C4_Witness ==
    /\ app_data[1] # Unset
    /\ \E i \in 1..Len(Records(app_data[1], S_todos)) :
           GetItem(Records(app_data[1], S_todos)[i], S_text) = Ok(JStr(<<"a", " ", "\"">>))
    /\ Records(app_data[1], S_habits) = <<>>
    /\ IsList(DictGet(app_data[1], S_habits))

\* The load of session s happens on this step.
Loads(s) == app_data[s] = Unset /\ app_data'[s] # Unset

\* data.json holds JSON whose top level is an object.
HoldsObject(f) == f.exists /\ json_load(f.toks).ok /\ IsDict(json_load(f.toks).val)

\* C5: a load from a data.json that exists and does not hold a JSON object
\* gives the default state, moves the file away, and leaves its content in
\* the backup named by the current second.
C5_CorruptionRecovery ==
    [][\A s \in Sessions :
           (Loads(s) /\ file.exists /\ ~HoldsObject(file))
               => /\ app_data'[s] = Default
                  /\ ~file'.exists
                  /\ now \in DOMAIN backups' /\ backups'[now] = file]_vars

\* C6: the app_data of a loaded session is a dict whose "todos" and
\* "habits" are both lists.
C6_BothSequences ==
    \A s \in Sessions :
        app_data[s] # Unset =>
            /\ IsDict(app_data[s])
            /\ \A k \in {S_todos, S_habits} :
                   HasKey(app_data[s], k) /\ IsList(DictGet(app_data[s], k))

\* C7: a load from a data.json that holds an object without "todos" or
\* without "habits" gives each missing collection as the empty list and each
\* present one as the file has it, makes no backup and leaves the file.
C7_Migration ==
    [][\A s \in Sessions :
           (/\ Loads(s) /\ HoldsObject(file)
            /\ \E k \in {S_todos, S_habits} : ~HasKey(json_load(file.toks).val, k))
               => /\ \A k \in {S_todos, S_habits} :
                         GetItem(app_data'[s], k) =
                             IF HasKey(json_load(file.toks).val, k)
                             THEN Ok(DictGet(json_load(file.toks).val, k))
                             ELSE Ok(JList(<<>>))
                  /\ backups' = backups
                  /\ file' = file]_vars

\* Session 1 has loaded a file that has "todos" with a record and no
\* "habits": app_data has the record and an empty "habits", the file is as
\* it was and there is no backup.
C7_Witness ==
    /\ HoldsObject(file)
    /\ ~HasKey(json_load(file.toks).val, S_habits)
    /\ Records(app_data[1], S_todos) = <<T_x>>
    /\ GetItem(app_data[1], S_habits) = Ok(JList(<<>>))
    /\ backups = <<>>

\* The text is empty once white space is trimmed off its ends.
IsBlank(t) == \A i \in 1..Len(t) : t[i] \in {" ", "\t", "\n"}

\* C8: add_todo and add_habit called with a blank text return without an
\* error, leave app_data as it is and leave every file as it is.
C8_EmptyGuard ==
    [][\A p \in Procs : \A t \in Texts :
           (IsBlank(t) /\ (AddTodoWith(p, t) \/ AddHabitWith(p, t)))
               => /\ pc'[p] = "idle" /\ out'[p] = "blank"
                  /\ app_data' = app_data
                  /\ file' = file /\ backups' = backups]_vars

\* A creation with blank text has returned: there is still no data.json and
\* app_data is the default state.
C8_Witness ==
    /\ pc[1] = "idle" /\ out[1] = "blank"
    /\ ~file.exists /\ backups = <<>>
    /\ app_data[1] = Default

\* The ids of the records of a collection, in order.
IdSeq(mem, key) ==
    [i \in 1..Len(Records(mem, key)) |-> GetItem(Records(mem, key)[i], S_id)]

Distinct(xs) == \A i, j \in 1..Len(xs) : i # j => xs[i] # xs[j]

\* xs is ys with some elements left out.
RECURSIVE IsSubseq(_, _)
IsSubseq(xs, ys) ==
    IF xs = <<>> THEN TRUE
    ELSE IF ys = <<>> THEN FALSE
    ELSE IF Head(xs) = Head(ys) THEN IsSubseq(Tail(xs), Tail(ys))
    ELSE IsSubseq(xs, Tail(ys))

\* The ids of a collection after a step of a session: those before, in the
\* same order, with some removed, or with one id no record had added last.
IdsKept(old, new) ==
    \/ IsSubseq(new, old)
    \/ /\ new # <<>>
       /\ SubSeq(new, 1, Len(new) - 1) = old
       /\ \A i \in 1..Len(old) : old[i] # new[Len(new)]

\* C9: the ids of the tasks are pairwise distinct, so are those of the
\* habits, and no step of a session gives a record another id.
C9_UniqueIds ==
    /\ [](\A s \in Sessions : \A k \in {S_todos, S_habits} :
              Distinct(IdSeq(app_data[s], k)))
    /\ [][\A s \in Sessions : \A k \in {S_todos, S_habits} :
              (app_data[s] # Unset /\ app_data'[s] # Unset)
                  => IdsKept(IdSeq(app_data[s], k), IdSeq(app_data'[s], k))]_vars

\* Two tasks with ids from new_id, one of them toggled since.
C9_Witness ==
    /\ Len(Records(app_data[1], S_todos)) = 2
    /\ IdSeq(app_data[1], S_todos) = <<Ok(JStr(new_id(0))), Ok(JStr(new_id(1)))>>
    /\ GetItem(Records(app_data[1], S_todos)[1], S_done) = Ok(JBool(TRUE))

\* C10: an operation that has called save_data ends with app_data as its
\* body left it; it ends with the error when save_data has not put the
\* complete text of app_data into data.json, and otherwise with the error
\* or with a return.
C10_SaveFailure ==
    [][\A p \in Procs :
           (InSave(p) /\ pc'[p] = "idle" /\ app_data'[sess[p]] # Unset)
               => /\ app_data' = app_data
                  /\ IF file' = FileOf(Encode(app_data[sess[p]]))
                     THEN out'[p] \in {"saved", "failed"}
                     ELSE out'[p] = "failed"]_vars

\* An add_todo has failed in save_data: app_data has the new task, and
\* data.json does not exist.
C10_Witness ==
    /\ pc[1] = "idle" /\ out[1] = "failed"
    /\ ~file.exists
    /\ Len(Records(app_data[1], S_todos)) = 1

\* No record of the collection key of mem has the id.
NoRecordHas(mem, key, id) ==
    \A i \in 1..Len(Records(mem, key)) : GetItem(Records(mem, key)[i], S_id) # Ok(id)

\* The operation with result r leaves mem as it is and raises nothing.
Ignored(r, mem) == r.ok /\ r.mem = mem

\* C11: in every state a session holds, delete_todo, toggle_todo,
\* delete_habit and toggle_habit_today called with an id no record of the
\* collection has raise no error and leave app_data as it is.
C11_NotFound ==
    \A s \in Sessions : \A id \in IdPool :
        app_data[s] # Unset =>
            /\ NoRecordHas(app_data[s], S_todos, id)
                   => /\ Ignored(delete_todo(app_data[s], id), app_data[s])
                      /\ Ignored(toggle_todo(app_data[s], id), app_data[s])
            /\ NoRecordHas(app_data[s], S_habits, id)
                   => /\ Ignored(delete_habit(app_data[s], id), app_data[s])
                      /\ \A checked \in BOOLEAN :
                             Ignored(toggle_habit_today(app_data[s], id, checked,
                                                        IsoDate(now)), app_data[s])

\* C12 as claimed: every call of clear_all_data, whatever its argument,
\* replaces app_data by the default state and goes on to save it.
C12_ClearAllAlways ==
    [][\A p \in Procs : \A confirm \in BOOLEAN :
           ClearAllDataWith(p, confirm)
               => app_data'[sess[p]] = Default /\ pc'[p] = "save_open"]_vars

\* C12 amended: clear_all_data(confirm=True) replaces app_data by the
\* default state from every state and goes on to save it, and when that
\* save returns data.json holds the default state; clear_all_data with
\* confirm false changes neither app_data nor any file.
C12_ClearAllConfirmed ==
    [][\A p \in Procs :
           /\ ClearAllDataWith(p, TRUE)
                  => app_data'[sess[p]] = Default /\ pc'[p] = "save_open"
           /\ ClearAllDataWith(p, FALSE)
                  => /\ app_data' = app_data /\ pc'[p] = "idle"
                     /\ file' = file /\ backups' = backups
           /\ (/\ pc[p] = "save_write" /\ op[p].name = "clear_all_data"
               /\ pc'[p] = "idle" /\ app_data'[sess[p]] # Unset)
                  => /\ app_data'[sess[p]] = Default
                     /\ file' = FileOf(Encode(Default))]_vars

\* clear_all_data(confirm=True) is in save_data, called on a state with a
\* task and a habit: app_data is the default state.
C12_Witness ==
    /\ pc[1] = "save_write" /\ op[1].name = "clear_all_data"
    /\ Records(pre[1], S_todos) # <<>> /\ Records(pre[1], S_habits) # <<>>
    /\ app_data[1] = Default

\* The dates a habit record is completed on.
DatesOf(h) == Records(h, S_completed_dates)

\* C13: in every state a session holds, for every habit id (and an id no
\* habit has) and both values of checked, toggle_habit_today called a second
\* time on the same day ends as the first call did and leaves app_data, and
\* so every completed_dates, as the first call left it.
C13_SetTodayIdempotent ==
    \A s \in Sessions :
        app_data[s] # Unset =>
            \A id \in IdsOf(app_data[s], S_habits) \cup {AbsentId} : \A checked \in BOOLEAN :
                LET once == toggle_habit_today(app_data[s], id, checked, IsoDate(now))
                    twice == toggle_habit_today(once.mem, id, checked, IsoDate(now))
                IN  twice.mem = once.mem /\ twice.ok = once.ok

\* On the second day a habit is completed on both days, after a
\* toggle_habit_today(id, True) that was saved.
C13_Witness ==
    /\ now = SecondsPerDay
    /\ pc[1] = "idle" /\ out[1] = "saved"
    /\ \E i \in 1..Len(Records(app_data[1], S_habits)) :
           DatesOf(Records(app_data[1], S_habits)[i])
               = <<JStr(IsoDate(0)), JStr(IsoDate(SecondsPerDay))>>

\* The number of places of xs that hold x.
Count(xs, x) == Cardinality({i \in 1..Len(xs) : xs[i] = x})

\* C14: no habit has a date twice in its completed_dates; a
\* toggle_habit_today(id, True) on a habit leaves today's date exactly once
\* in its completed_dates, and a toggle_habit_today(id, False) leaves it
\* absent.
C14_NoDuplicateDates ==
    /\ [](\A s \in Sessions : \A i \in 1..Len(Records(app_data[s], S_habits)) :
              Distinct(DatesOf(Records(app_data[s], S_habits)[i])))
    /\ [][\A p \in procs : \A id \in IdsOf(app_data[sess[p]], S_habits) :
              \A checked \in BOOLEAN :
              ToggleHabitTodayWith(p, id, checked)
                  => \A i \in 1..Len(Records(app_data'[sess[p]], S_habits)) :
                         LET h == Records(app_data'[sess[p]], S_habits)[i] IN
                         GetItem(h, S_id) = Ok(id)
                             => Count(DatesOf(h), JStr(IsoDate(now)))
                                    = IF checked THEN 1 ELSE 0]_vars

\* On the second day toggle_habit_today(id, False) is in save_data for a
\* habit that was completed on both days: the first day is left.
C14_Witness ==
    /\ now = SecondsPerDay
    /\ pc[1] = "save_open" /\ op[1].name = "toggle_habit_today" /\ ~op[1].flag
    /\ \E i \in 1..Len(Records(pre[1], S_habits)) :
           /\ GetItem(Records(pre[1], S_habits)[i], S_id) = Ok(op[1].id)
           /\ Len(DatesOf(Records(pre[1], S_habits)[i])) = 2
           /\ DatesOf(Records(app_data[1], S_habits)[i]) = <<JStr(IsoDate(0))>>

\* u is t without the white space at its two ends.
IsTrimOf(u, t) ==
    \E i \in 1..(Len(t) + 1) : \E j \in 0..Len(t) :
        /\ u = SubSeq(t, i, j)
        /\ \A k \in 1..Len(t) : (k < i \/ k > j) => t[k] \in {" ", "\t", "\n"}
        /\ u # <<>> => u[1] \notin {" ", "\t", "\n"} /\ u[Len(u)] \notin {" ", "\t", "\n"}

\* The life of a task from the state mem: add_todo(text) appends one task
\* with the next id of new_id, done false and the trimmed text; toggle_todo
\* of that id makes it done; delete_todo of that id gives the tasks of mem
\* back.
Lifecycle(mem, text) ==
    LET id == JStr(new_id(nextId))
        added == add_todo(mem, text, new_id(nextId), IsoDateTime(now))
        toggled == toggle_todo(added.mem, id)
        deleted == delete_todo(toggled.mem, id)
        old == Records(mem, S_todos)
        new == Records(added.mem, S_todos)
    IN  /\ added.ok /\ toggled.ok /\ deleted.ok
        /\ Len(new) = Len(old) + 1
        /\ SubSeq(new, 1, Len(old)) = old
        /\ NoRecordHas(mem, S_todos, id)
        /\ GetItem(new[Len(new)], S_id) = Ok(id)
        /\ GetItem(new[Len(new)], S_done) = Ok(JBool(FALSE))
        /\ LET got == GetItem(new[Len(new)], S_text)
           IN  got.ok /\ IsStr(got.val) /\ IsTrimOf(got.val.s, text)
        /\ Len(Records(toggled.mem, S_todos)) = Len(new)
        /\ GetItem(Records(toggled.mem, S_todos)[Len(new)], S_done) = Ok(JBool(TRUE))
        /\ Records(deleted.mem, S_todos) = old

\* C15: in every state a session holds, add_todo with a text that is not
\* blank appends exactly one task at the end of the tasks, with a fresh id,
\* done false and the trimmed text; toggle_todo of that id then makes it
\* done, and delete_todo of that id then removes it.
C15_TaskLifecycle ==
    \A s \in Sessions :
        app_data[s] # Unset =>
            \A text \in Texts : ~IsBlank(text) => Lifecycle(app_data[s], text)

\* C16: a load while data.json does not exist gives the default state,
\* creates no data.json and creates no backup.
C16_LoadMissing ==
    [][\A s \in Sessions :
           (Loads(s) /\ ~file.exists)
               => /\ app_data'[s] = Default
                  /\ ~file'.exists
                  /\ backups' = backups]_vars

\* Session 1 has loaded while there was no data.json, and has done nothing
\* since: there is still no data.json and no backup.
C16_Witness ==
    /\ app_data[1] = Default /\ out[1] = "none" /\ pc[1] = "idle"
    /\ ~file.exists /\ ~committed.exists /\ backups = <<>> /\ nextId = 0

\* C17: with two sessions over one data.json, whenever no operation is in
\* progress and a save has completed, data.json holds exactly the app_data
\* of the session whose save_data completed last.
C17_LastWriterWins ==
    ((\A p \in procs : pc[p] = "idle") /\ lastSaver # 0)
        => file = FileOf(Encode(app_data[lastSaver]))

\* C18: a backup that exists stays, with the content it has, over every
\* step; and a backup appears only on a load of a data.json that exists.
C18_BackupsKept ==
    [][/\ \A t \in DOMAIN backups : t \in DOMAIN backups' /\ backups'[t] = backups[t]
       /\ (DOMAIN backups' # DOMAIN backups)
              => \E s \in Sessions : Loads(s) /\ file.exists /\ backups'[now] = file]_vars

\* The records of xs whose id is not id, in the order of xs.
Without(xs, id) == SelectSeq(xs, LAMBDA x : GetItem(x, S_id) # Ok(id))

\* The step from mem to mem2 took the records with the id out of the
\* collection key, kept its other records as they were and in their order,
\* and left the collection other as it was.
RemovedOnly(mem, mem2, key, other, id) ==
    /\ Records(mem2, key) = Without(Records(mem, key), id)
    /\ GetItem(mem2, other) = GetItem(mem, other)

\* C19: a delete_todo(id) step removes from the tasks the record with the id
\* and nothing else and leaves the habits as they are; a delete_habit(id)
\* step does the same with the habits and leaves the tasks.
C19_DeleteFrame ==
    [][\A p \in procs :
           /\ \A id \in IdsOf(app_data[sess[p]], S_todos) \cup {AbsentId} :
                  DeleteTodoWith(p, id)
                      => RemovedOnly(app_data[sess[p]], app_data'[sess[p]],
                                     S_todos, S_habits, id)
           /\ \A id \in IdsOf(app_data[sess[p]], S_habits) \cup {AbsentId} :
                  DeleteHabitWith(p, id)
                      => RemovedOnly(app_data[sess[p]], app_data'[sess[p]],
                                     S_habits, S_todos, id)]_vars

\* delete_todo of the first of two tasks is in save_data, with a habit
\* beside: the second task is left.
C19_Witness ==
    /\ pc[1] = "save_open" /\ op[1].name = "delete_todo"
    /\ Len(Records(pre[1], S_todos)) = 2
    /\ GetItem(Records(pre[1], S_todos)[1], S_id) = Ok(op[1].id)
    /\ Records(app_data[1], S_todos) = <<Records(pre[1], S_todos)[2]>>
    /\ Records(app_data[1], S_habits) # <<>>

\* The step from mem to mem2 flipped the done flag of the task with the id
\* and changed nothing else: the habits, the number and order of the tasks,
\* every other task and every other field of that task are as they were.
FlippedOnly(mem, mem2, id) ==
    LET old == Records(mem, S_todos)
        new == Records(mem2, S_todos)
    IN  /\ GetItem(mem2, S_habits) = GetItem(mem, S_habits)
        /\ Len(new) = Len(old)
        /\ \A i \in 1..Len(old) :
               IF GetItem(old[i], S_id) = Ok(id)
               THEN /\ GetItem(new[i], S_done) # GetItem(old[i], S_done)
                    /\ GetItem(new[i], S_done).val.t = "bool"
                    /\ new[i].ps = [j \in 1..Len(old[i].ps) |->
                                       IF old[i].ps[j].k = S_done
                                       THEN new[i].ps[j]
                                       ELSE old[i].ps[j]]
               ELSE new[i] = old[i]

\* C20: in every state a session holds and for every task id (and an id no
\* task has), toggle_todo called twice gives app_data back as it was; and a
\* toggle_todo step flips the done flag of the task with the id and changes
\* nothing else.
C20_ToggleInvolution ==
    /\ [](\A s \in Sessions :
              app_data[s] # Unset =>
                  \A id \in IdsOf(app_data[s], S_todos) \cup {AbsentId} :
                      toggle_todo(toggle_todo(app_data[s], id).mem, id).mem = app_data[s])
    /\ [][\A p \in procs : \A id \in IdsOf(app_data[sess[p]], S_todos) \cup {AbsentId} :
              ToggleTodoWith(p, id)
                  => FlippedOnly(app_data[sess[p]], app_data'[sess[p]], id)]_vars

\* toggle_todo of the second of two tasks is in save_data: the task was not
\* done and is done, and the first task is as it was.
C20_Witness ==
    /\ pc[1] = "save_open" /\ op[1].name = "toggle_todo"
    /\ Len(Records(pre[1], S_todos)) = 2
    /\ GetItem(Records(pre[1], S_todos)[2], S_id) = Ok(op[1].id)
    /\ GetItem(Records(pre[1], S_todos)[2], S_done) = Ok(JBool(FALSE))
    /\ GetItem(Records(app_data[1], S_todos)[2], S_done) = Ok(JBool(TRUE))
    /\ Records(app_data[1], S_todos)[1] = Records(pre[1], S_todos)[1]

====
